---- MODULE Spec2Model ----
(***************************************************************************)
(* A model of the push-time AI quality gate of trendradar                  *)
(* (src/trendradar/ai/quality_gate.py): one invocation of                  *)
(* AIQualityGate.filter_before_send, from the call to the return.          *)
(*                                                                         *)
(* The caller's three arguments (report_data, rss_items, rss_new_items)    *)
(* live in a small heap of objects, so that "returns the input" and        *)
(* "does not mutate the input" are about object identity and object        *)
(* content, as in Python.  Python indices are 0-based; sequence positions  *)
(* here are 1-based, and an id carries the Python index (position - 1).    *)
(***************************************************************************)
EXTENDS Integers, Sequences, FiniteSets, TLC

\* ------------------------------------------------------------------ bounds

\* Most title entries over the four input collections together.
MaxEntries == 2

\* ------------------------------------------------------- program constants

\* quality_gate.py:82  int(gate_config.get("MIN_SCORE", 60) or 60)
DefaultMinScore == 60
\* quality_gate.py:86  int(gate_config.get("MAX_ITEMS", 30) or 30)
DefaultMaxItems == 30
\* quality_gate.py:88  int(gate_config.get("BATCH_SIZE", 40) or 40)
DefaultBatchSize == 40
\* quality_gate.py:434 if len(brief) > 80: brief = brief[:80].rstrip()
MaxBriefLen == 80

\* ------------------------------------------------------------- text values

\* A text is a sequence of one-character strings.
Whitespace == {" ", "\n", "\r"}

RECURSIVE lstrip(_)
lstrip(s) ==
    IF s # <<>> /\ Head(s) \in Whitespace THEN lstrip(Tail(s)) ELSE s

RECURSIVE rstrip(_)
rstrip(s) ==
    IF s # <<>> /\ s[Len(s)] \in Whitespace
    THEN rstrip(SubSeq(s, 1, Len(s) - 1))
    ELSE s

\* str.strip()
strip(s) == rstrip(lstrip(s))

\* str.replace("\n", " ").replace("\r", " ")
replace_newlines(s) ==
    [i \in 1..Len(s) |-> IF s[i] \in {"\n", "\r"} THEN " " ELSE s[i]]

\* The brief cut at 80 characters and left as cut.
normalize_brief_cut_only(raw) ==
    LET b0 == strip(raw) IN
    IF b0 = <<>> THEN <<>>
    ELSE LET b1 == strip(replace_newlines(b0)) IN
         IF Len(b1) > MaxBriefLen
         THEN SubSeq(b1, 1, MaxBriefLen)
         ELSE b1

\* The brief of one response row, as _judge_batch stores it.
normalize_brief(raw) ==
    LET b0 == strip(raw) IN
    IF b0 = <<>> THEN <<>>
    ELSE LET b1 == strip(replace_newlines(b0)) IN
         IF Len(b1) > MaxBriefLen
         THEN rstrip(SubSeq(b1, 1, MaxBriefLen))
         ELSE b1

\* ------------------------------------------------------------------ inputs

\* An optional list: Python's None, or a list of groups.
None == [some |-> FALSE, groups |-> <<>>]
Some(gs) == [some |-> TRUE, groups |-> gs]

\* Python truthiness of an optional list: None and [] are falsy.
truthy(opt) == opt.some /\ opt.groups # <<>>

\* `x or []`
or_empty(opt) == IF truthy(opt) THEN opt.groups ELSE <<>>

\* A title entry: its title, its link (the first non-empty of mobileUrl,
\* mobile_url and url) and the brief annotation (<<>>: the entry has no brief).  at is not a field of the program's entry: it names the
\* place of the entry in the caller's structure (section, group index, title
\* index), so that an entry of the output can be told from its neighbours.
NoBrief == <<>>
Entry(title, url) == [title |-> title, url |-> url, brief |-> NoBrief, at |-> <<>>]

\* The entries the inputs are built from: a whitespace-only title, and two
\* titled entries, one with a link.
Entries ==
    { Entry(<<" ">>, ""), Entry(<<"A">>, "u"), Entry(<<"B", " ">>, "") }

\* The title lists of the groups of a collection that holds n entries in all
\* (every composition of n into non-empty groups).
RECURSIVE TitleLists(_)
TitleLists(n) ==
    IF n = 0 THEN { <<>> }
    ELSE UNION { { <<tl>> \o rest : tl \in [1..k -> Entries],
                                    rest \in TitleLists(n - k) } : k \in 1..n }

\* A keyword group of hot_stats, rss_items or rss_new_items: the caller hands
\* over count = len(titles).
StatGroup(tl) == [word |-> "w", titles |-> tl, count |-> Len(tl)]
\* A source group of new_titles: it carries no count.
SourceGroup(tl) == [source_name |-> "s", titles |-> tl]

\* The title list tl as the titles of group gi (1-based) of a section.
Placed(section, gi, tl) ==
    [j \in 1..Len(tl) |-> [tl[j] EXCEPT !.at = << section, gi - 1, j - 1 >>]]

StatGroups(section, tls) ==
    [i \in 1..Len(tls) |-> StatGroup(Placed(section, i, tls[i]))]
SourceGroups(tls) ==
    [i \in 1..Len(tls) |-> SourceGroup(Placed("hot_new", i, tls[i]))]

RECURSIVE SumLen(_)
SumLen(gs) == IF gs = <<>> THEN 0 ELSE Len(Head(gs).titles) + SumLen(Tail(gs))

ReportData(stats, new_titles) ==
    [stats |-> stats, new_titles |-> new_titles,
     total_new_count |-> SumLen(new_titles)]

\* The rss_items arguments that hold n entries: for n = 0, None or [].
OptLists(n) ==
    IF n = 0 THEN { None, Some(<<>>) }
    ELSE { Some(StatGroups("rss_stats", tls)) : tls \in TitleLists(n) }

\* The rss_new_items arguments that hold n entries: for n = 0, None.
OptNewLists(n) ==
    IF n = 0 THEN { None }
    ELSE { Some(StatGroups("rss_new", tls)) : tls \in TitleLists(n) }

\* Raw configuration values.  ENABLED is absent or one of Python's False and
\* True (core/loader.py hands over a bool); API_KEY is a text; MAX_ITEMS and
\* BATCH_SIZE are ints.
EnabledValues == { "absent", "false", "true" }
ApiKeyValues == { <<" ">>, <<"k">> }
MaxItemsValues == { 0, 1 }
BatchSizeValues == { 1, 2 }

\* gate_config and ai_config as the loader hands them over (the keys ENABLED,
\* MAX_ITEMS, BATCH_SIZE, USE_CONTENT, CONTENT_FETCH_CONCURRENCY of gate_config
\* and API_KEY of ai_config).
Configs ==
    [enabled : EnabledValues, api_key : ApiKeyValues,
     max_items : MaxItemsValues, batch_size : BatchSizeValues,
     use_content : BOOLEAN, content_fetch_concurrency : {0}]

\* The three arguments of one call.
Arguments ==
    UNION { UNION { UNION { UNION {
        { [report_data |-> ReportData(StatGroups("hot_stats", hs), SourceGroups(hn)),
           rss_items |-> rs, rss_new_items |-> rn] :
            hs \in TitleLists(n1), hn \in TitleLists(n2),
            rs \in OptLists(n3), rn \in OptNewLists(n4) }
        : n4 \in 0..(MaxEntries - n1 - n2 - n3) }
        : n3 \in 0..(MaxEntries - n1 - n2) }
        : n2 \in 0..(MaxEntries - n1) }
        : n1 \in 0..MaxEntries }

\* What the judgment service may answer for one entry of its array.
RowKinds ==
    { [keep |-> TRUE,  score |-> DefaultMinScore,     brief |-> <<"X">>],
      [keep |-> TRUE,  score |-> DefaultMinScore - 1, brief |-> <<" ", "Y", "\n", "Z">>],
      [keep |-> FALSE, score |-> DefaultMinScore,     brief |-> <<>>] }

\* The ways one judgment call fails: client.chat raises, no JSON is found in
\* the answer, the JSON does not parse, the JSON is not an array.
FailureKinds ==
    { "ConnectionError: chat", "ValueError: no JSON found",
      "JSONDecodeError: invalid", "ValueError: not an array" }

\* ------------------------------------------------------------------- state

VARIABLES
    cfg,          \* the configuration the gate was constructed with
    args,         \* the arguments as the caller passed them (never changes)
    heap,         \* object name -> content: "caller" holds the caller's objects
    pc,           \* "start", "judging", "done"
    items,        \* the candidates of _collect_candidates
    eval_items,   \* the candidates sent for judgment
    start,        \* the offset of the next batch in eval_items
    decisions,    \* id -> decision, accumulated over the batches
    stats,        \* QualityGateStats
    ret,          \* the returned references, once pc = "done"
    collected,    \* whether _collect_candidates has run
    judge_calls,  \* client.chat calls issued
    fetch_calls,  \* fetch_url_text calls issued
    failed_batch, \* the number of the judgment call that raised (0: none has)
    sent_chunks,  \* the id lists of the chunks sent to the service, in order
    tasks,        \* the fetches submitted for the current chunk
    url_to_content, \* url -> text, filled as the fetches of the chunk complete
    payload,      \* the enriched payload of the last judgment call
    outstanding,  \* the numbers of the judgment calls issued and not returned
    last_answer   \* the last answer as the service wrote it (kept by the views
                  \* that study the answers: JudgeBatchReturnsBrief, JudgeBatchAnswered)

\* The variables only the step-by-step view of _judge_batch changes.
step_vars == << tasks, url_to_content, payload, outstanding >>

vars ==
    << cfg, args, heap, pc, items, eval_items, start, decisions, stats, ret,
       collected, judge_calls, fetch_calls, failed_batch, sent_chunks,
       tasks, url_to_content, payload, outstanding, last_answer >>

\* ----------------------------------------------------- AIQualityGate.__init__

\* A gate that is on unless it is switched off.
get_bool_default_true(raw) == IF raw = "absent" THEN TRUE ELSE raw = "true"

\* bool(gate_config.get(KEY, False))
get_bool(raw) == IF raw = "absent" THEN FALSE ELSE raw = "true"

\* int(gate_config.get(KEY, default) or default): 0 counts as not set.
int_or(raw, default) == IF raw = 0 THEN default ELSE raw

enabled == get_bool(cfg.enabled)
min_score == DefaultMinScore
max_items == int_or(cfg.max_items, DefaultMaxItems)
batch_size == int_or(cfg.batch_size, DefaultBatchSize)
use_content == cfg.use_content

\* The key taken as configured, without strip().
api_key_unstripped == cfg.api_key

\* (ai_config.get("API_KEY") or "").strip()
api_key == strip(cfg.api_key)

\* QualityGateStats()
NewStats ==
    [total_items |-> 0, evaluated_items |-> 0, kept_items |-> 0,
     dropped_items |-> 0, error |-> ""]

\* ------------------------------------------------------ _collect_candidates

\* The id made of the two indices alone: f"{gi}:{ti}"
MkId_no_section(section, gi, ti) == << "", gi, ti >>

\* f"{section}:{gi}:{ti}", gi and ti being Python's 0-based indices.
MkId(section, gi, ti) == << section, gi, ti >>

\* The candidates of titles[ti..] with no test of the title: every entry is one.
RECURSIVE collect_titles_with_blank(_, _, _, _)
collect_titles_with_blank(section, gi, titles, ti) ==
    IF ti > Len(titles) THEN << >>
    ELSE LET t == titles[ti]
             title == strip(t.title)
             rest == collect_titles_with_blank(section, gi, titles, ti + 1)
         IN  << [id |-> MkId(section, gi - 1, ti - 1), title |-> title,
                 section |-> section, url |-> t.url] >> \o rest

\* The candidates of titles[ti..] of group gi (positions 1-based): an entry
\* whose stripped title is empty is skipped.
RECURSIVE collect_titles(_, _, _, _)
collect_titles(section, gi, titles, ti) ==
    IF ti > Len(titles) THEN << >>
    ELSE LET t == titles[ti]
             title == strip(t.title)
             rest == collect_titles(section, gi, titles, ti + 1)
         IN  IF title = << >> THEN rest
             ELSE << [id |-> MkId(section, gi - 1, ti - 1), title |-> title,
                      section |-> section, url |-> t.url] >> \o rest

RECURSIVE collect_groups(_, _, _)
collect_groups(section, groups, gi) ==
    IF gi > Len(groups) THEN << >>
    ELSE collect_titles(section, gi, groups[gi].titles, 1)
            \o collect_groups(section, groups, gi + 1)

\* The item list of _collect_candidates: the four sections in turn.
collect_candidates(a) ==
    collect_groups("hot_stats", a.report_data.stats, 1)
        \o collect_groups("hot_new", a.report_data.new_titles, 1)
        \o collect_groups("rss_stats", or_empty(a.rss_items), 1)
        \o collect_groups("rss_new", or_empty(a.rss_new_items), 1)

\* str(n) for n >= 0, and the text of an id: f"{section}:{gi}:{ti}"
RECURSIVE Digits(_)
Digits(n) ==
    LET d == << "0", "1", "2", "3", "4", "5", "6", "7", "8", "9" >>[(n % 10) + 1]
    IN  IF n < 10 THEN << d >> ELSE Digits(n \div 10) \o << d >>
id_text(id) == << id[1], ":" >> \o Digits(id[2]) \o << ":" >> \o Digits(id[3])

Ids(its) == { its[i].id : i \in 1..Len(its) }
IdList(its) == [i \in 1..Len(its) |-> its[i].id]

\* items[: max_items] if max_items > 0 else items
cap_items(its) ==
    IF max_items > 0
    THEN SubSeq(its, 1, IF max_items < Len(its) THEN max_items ELSE Len(its))
    ELSE its

\* -------------------------------------------- _judge_in_batches, _judge_batch

\* batch_size if batch_size > 0 else len(items)
effective_batch_size(its) == IF batch_size > 0 THEN batch_size ELSE Len(its)

\* The slice taken one element too long: items[start : start + batch_size + 1]
chunk_at_one_more(its, st) ==
    LET e == st + effective_batch_size(its) + 1
    IN  SubSeq(its, st + 1, IF e < Len(its) THEN e ELSE Len(its))

\* items[start : start + batch_size]
chunk_at(its, st) ==
    LET e == st + effective_batch_size(its)
    IN  SubSeq(its, st + 1, IF e < Len(its) THEN e ELSE Len(its))

\* The links fetch_url_text is submitted for: every non-empty url of the chunk.
fetch_urls(chunk) ==
    IF use_content
    THEN SelectSeq([i \in 1..Len(chunk) |-> chunk[i].url], LAMBDA u : u # "")
    ELSE << >>

\* The decision _judge_batch stores for one row of the answer (its reason, which
\* nothing reads, is left out).
row_decision(row) ==
    [keep |-> row.keep, score |-> row.score, brief |-> normalize_brief(row.brief)]

\* decisions.update(chunk_decisions): a row is stored under the id it names.
update_decisions(decs, rows) ==
    [id \in DOMAIN decs \cup DOMAIN rows |->
        IF id \in DOMAIN rows THEN row_decision(rows[id]) ELSE decs[id]]

\* ------------------------------------------------------ the Decision Merger

\* The threshold taken strictly.
passes_strict(d) == d.keep /\ d.score > min_score

\* keep and score >= min_score
passes(d) == d.keep /\ d.score >= min_score

\* An item without a decision taken as dropped.
keeps_decided_only(decs, id) == IF id \notin DOMAIN decs THEN FALSE ELSE passes(decs[id])

\* d = decisions.get(it_id): no decision keeps the item.
keeps(decs, id) == IF id \notin DOMAIN decs THEN TRUE ELSE passes(decs[id])

\* filter_before_send, the loop over items.
keep_ids_of(its, decs) ==
    { its[i].id : i \in { j \in 1..Len(its) : keeps(decs, its[j].id) } }

\* ------------------------------------------------------------ _apply_kept_ids

\* The kept entry left as it was, whatever its decision says.
annotate_never(t, tid, decs) == t

\* The kept entry: the brief of its decision is attached when there is one.
annotate(t, tid, decs) ==
    IF tid \in DOMAIN decs /\ decs[tid].brief # << >>
    THEN [t EXCEPT !.brief = decs[tid].brief]
    ELSE t

\* The kept titles collected last first.
RECURSIVE kept_titles_last_first(_, _, _, _, _, _)
kept_titles_last_first(section, gi, titles, ti, keep_ids, decs) ==
    IF ti > Len(titles) THEN << >>
    ELSE LET tid == MkId(section, gi - 1, ti - 1)
             rest == kept_titles_last_first(section, gi, titles, ti + 1, keep_ids, decs)
         IN  IF tid \in keep_ids
             THEN rest \o << annotate(titles[ti], tid, decs) >>
             ELSE rest

\* The kept titles, an entry with a blank title (which has no id) kept too.
RECURSIVE kept_titles_and_blank(_, _, _, _, _, _)
kept_titles_and_blank(section, gi, titles, ti, keep_ids, decs) ==
    IF ti > Len(titles) THEN << >>
    ELSE LET tid == MkId(section, gi - 1, ti - 1)
             rest == kept_titles_and_blank(section, gi, titles, ti + 1, keep_ids, decs)
         IN  IF tid \in keep_ids \/ strip(titles[ti].title) = << >>
             THEN << annotate(titles[ti], tid, decs) >> \o rest
             ELSE rest

RECURSIVE kept_titles(_, _, _, _, _, _)
kept_titles(section, gi, titles, ti, keep_ids, decs) ==
    IF ti > Len(titles) THEN << >>
    ELSE LET tid == MkId(section, gi - 1, ti - 1)
             rest == kept_titles(section, gi, titles, ti + 1, keep_ids, decs)
         IN  IF tid \in keep_ids
             THEN << annotate(titles[ti], tid, decs) >> \o rest
             ELSE rest

\* The titles cut, the count left as it was.
with_titles_stale_count(g, kept) == [g EXCEPT !.titles = kept]

\* g["titles"] = kept_titles; g["count"] = len(kept_titles)
with_titles_and_count(g, kept) ==
    [g EXCEPT !.titles = kept, !.count = Len(kept)]

\* s["titles"] = kept_titles
with_titles(s, kept) == [s EXCEPT !.titles = kept]

\* The keyword-group loop without its `if kept_titles:` test: every group is
\* appended, emptied or not.
RECURSIVE rewrite_stat_groups_keep_empty(_, _, _, _, _)
rewrite_stat_groups_keep_empty(section, groups, gi, keep_ids, decs) ==
    IF gi > Len(groups) THEN << >>
    ELSE LET kept == kept_titles(section, gi, groups[gi].titles, 1, keep_ids, decs)
             rest == rewrite_stat_groups_keep_empty(section, groups, gi + 1, keep_ids, decs)
         IN  << with_titles_and_count(groups[gi], kept) >> \o rest

\* One of the three keyword-group loops: a group with no kept title is left out.
RECURSIVE rewrite_stat_groups(_, _, _, _, _)
rewrite_stat_groups(section, groups, gi, keep_ids, decs) ==
    IF gi > Len(groups) THEN << >>
    ELSE LET kept == kept_titles(section, gi, groups[gi].titles, 1, keep_ids, decs)
             rest == rewrite_stat_groups(section, groups, gi + 1, keep_ids, decs)
         IN  IF kept # << >>
             THEN << with_titles_and_count(groups[gi], kept) >> \o rest
             ELSE rest

\* The new_titles loop.
RECURSIVE rewrite_source_groups(_, _, _, _)
rewrite_source_groups(groups, si, keep_ids, decs) ==
    IF si > Len(groups) THEN << >>
    ELSE LET kept == kept_titles("hot_new", si, groups[si].titles, 1, keep_ids, decs)
             rest == rewrite_source_groups(groups, si + 1, keep_ids, decs)
         IN  IF kept # << >>
             THEN << with_titles(groups[si], kept) >> \o rest
             ELSE rest

\* report_data after the two hot-list loops.
rewrite_report_data(rd, keep_ids, decs) ==
    LET new_sources == rewrite_source_groups(rd.new_titles, 1, keep_ids, decs)
    IN  [rd EXCEPT
            !.stats = rewrite_stat_groups("hot_stats", rd.stats, 1, keep_ids, decs),
            !.new_titles = new_sources,
            !.total_new_count = SumLen(new_sources)]

\* copy.deepcopy(x) if x else None, then the loop when the copy is not None.
rewrite_opt(section, opt, keep_ids, decs) ==
    IF truthy(opt)
    THEN Some(rewrite_stat_groups(section, opt.groups, 1, keep_ids, decs))
    ELSE None

\* The rewrite done in place, on the caller's own objects.
in_place_target == "caller"

\* The object _apply_kept_ids writes to: copy.deepcopy gives a new object.
deepcopy_target == "copy"

\* The content of the rewritten objects.
apply_kept_ids(a, keep_ids, decs) ==
    [report_data |-> rewrite_report_data(a.report_data, keep_ids, decs),
     rss_items |-> rewrite_opt("rss_stats", a.rss_items, keep_ids, decs),
     rss_new_items |-> rewrite_opt("rss_new", a.rss_new_items, keep_ids, decs)]

\* The sets of ids one answer may name: any ids of the chunk it was sent, and
\* at most one id of a candidate that was not in the chunk.
NamedIds(chunk, its) ==
    { own \cup stray :
        own \in SUBSET Ids(chunk),
        stray \in { {} } \cup { {id} : id \in Ids(its) \ Ids(chunk) } }

\* ---------------------------------------------------------------- the calls

\* The references filter_before_send returns on its pass-through paths: the
\* caller's own objects.
echo_refs == [report_data |-> "caller", rss_items |-> "caller", rss_new_items |-> "caller"]

\* The references it returns after filtering: the rewritten objects, and None
\* for an rss argument that was None or empty.
filtered_refs(target, a) ==
    [report_data |-> target,
     rss_items |-> IF truthy(a.rss_items) THEN target ELSE "None",
     rss_new_items |-> IF truthy(a.rss_new_items) THEN target ELSE "None"]

Init ==
    /\ cfg \in Configs
    /\ args \in Arguments
    /\ heap = [o \in {"caller"} |-> args]
    /\ pc = "start"
    /\ items = << >>
    /\ eval_items = << >>
    /\ start = 0
    /\ decisions = << >>
    /\ stats = NewStats
    /\ ret = [report_data |-> "None", rss_items |-> "None", rss_new_items |-> "None"]
    /\ collected = FALSE
    /\ judge_calls = 0
    /\ fetch_calls = 0
    /\ failed_batch = 0
    /\ sent_chunks = << >>
    /\ tasks = << >>
    /\ url_to_content = << >>
    /\ payload = << >>
    /\ outstanding = {}
    /\ last_answer = << >>

\* if not self.enabled: return report_data, rss_items, rss_new_items, stats
ReturnDisabled ==
    /\ pc = "start"
    /\ ~enabled
    /\ ret' = echo_refs
    /\ pc' = "done"
    /\ UNCHANGED << cfg, args, heap, items, eval_items, start, decisions,
                    stats, collected, judge_calls, fetch_calls, failed_batch,
                    sent_chunks >>
    /\ UNCHANGED step_vars
    /\ UNCHANGED last_answer

\* The missing key passed over without a word in the stats.
ReturnNoKeySilently ==
    /\ pc = "start"
    /\ enabled
    /\ api_key = << >>
    /\ ret' = echo_refs
    /\ pc' = "done"
    /\ UNCHANGED << cfg, args, heap, items, eval_items, start, decisions,
                    stats, collected, judge_calls, fetch_calls, failed_batch,
                    sent_chunks >>
    /\ UNCHANGED step_vars
    /\ UNCHANGED last_answer

\* if not api_key and not env_key: stats.error = ...; return the arguments
ReturnNoKey ==
    /\ pc = "start"
    /\ enabled
    /\ api_key = << >>
    /\ stats' = [stats EXCEPT !.error = "no AI_API_KEY, quality gate skipped"]
    /\ ret' = echo_refs
    /\ pc' = "done"
    /\ UNCHANGED << cfg, args, heap, items, eval_items, start, decisions,
                    collected, judge_calls, fetch_calls, failed_batch,
                    sent_chunks >>
    /\ UNCHANGED step_vars
    /\ UNCHANGED last_answer

\* items, pointers = _collect_candidates(...); if not items: return the arguments
ReturnNoCandidates ==
    /\ pc = "start"
    /\ enabled
    /\ api_key # << >>
    /\ collect_candidates(heap["caller"]) = << >>
    /\ collected' = TRUE
    /\ stats' = [stats EXCEPT !.total_items = 0]
    /\ ret' = echo_refs
    /\ pc' = "done"
    /\ UNCHANGED << cfg, args, heap, items, eval_items, start, decisions,
                    judge_calls, fetch_calls, failed_batch, sent_chunks >>
    /\ UNCHANGED step_vars
    /\ UNCHANGED last_answer

\* The candidates are collected and capped, and _judge_in_batches is entered.
BeginJudging ==
    /\ pc = "start"
    /\ enabled
    /\ api_key # << >>
    /\ LET its == collect_candidates(heap["caller"])
       IN  /\ its # << >>
           /\ items' = its
           /\ eval_items' = cap_items(its)
           /\ stats' = [stats EXCEPT !.total_items = Len(its),
                                     !.evaluated_items = Len(cap_items(its))]
    /\ collected' = TRUE
    /\ start' = 0
    /\ pc' = "judging"
    /\ UNCHANGED << cfg, args, heap, decisions, ret, judge_calls, fetch_calls,
                    failed_batch, sent_chunks >>
    /\ UNCHANGED step_vars
    /\ UNCHANGED last_answer

\* One _judge_batch call that returns: the links of the chunk are fetched, the
\* service is called and answers an array naming some ids, and the decisions
\* of the array are merged.
JudgeBatchReturns ==
    /\ pc = "judging"
    /\ start < Len(eval_items)
    /\ LET chunk == chunk_at(eval_items, start)
       IN  /\ fetch_calls' = fetch_calls + Len(fetch_urls(chunk))
           /\ judge_calls' = judge_calls + 1
           /\ sent_chunks' = Append(sent_chunks, IdList(chunk))
           /\ \E named \in NamedIds(chunk, items) :
                \E rows \in [named -> RowKinds] :
                    /\ decisions' = update_decisions(decisions, rows)
           /\ start' = start + effective_batch_size(eval_items)
    /\ UNCHANGED << cfg, args, heap, pc, items, eval_items, stats, ret,
                    collected, failed_batch >>
    /\ UNCHANGED step_vars
    /\ UNCHANGED last_answer

\* f"{type(e).__name__}: {e}"
error_text(e) == e

\* The exception caught inside the batch loop: the error is recorded and the
\* next batch is judged, so the decisions of the other batches are applied.
JudgeBatchRaisesAndContinues ==
    /\ pc = "judging"
    /\ start < Len(eval_items)
    /\ LET chunk == chunk_at(eval_items, start)
       IN  /\ fetch_calls' = fetch_calls + Len(fetch_urls(chunk))
           /\ judge_calls' = judge_calls + 1
           /\ sent_chunks' = Append(sent_chunks, IdList(chunk))
           /\ failed_batch' = judge_calls + 1
    /\ \E e \in FailureKinds : stats' = [stats EXCEPT !.error = error_text(e)]
    /\ start' = start + effective_batch_size(eval_items)
    /\ UNCHANGED << cfg, args, heap, pc, items, eval_items, decisions, ret,
                    collected >>
    /\ UNCHANGED step_vars
    /\ UNCHANGED last_answer

\* The exception caught, and the decisions merged so far applied.
JudgeBatchRaisesAndApplies ==
    /\ pc = "judging"
    /\ start < Len(eval_items)
    /\ LET chunk == chunk_at(eval_items, start)
       IN  /\ fetch_calls' = fetch_calls + Len(fetch_urls(chunk))
           /\ judge_calls' = judge_calls + 1
           /\ sent_chunks' = Append(sent_chunks, IdList(chunk))
           /\ failed_batch' = judge_calls + 1
    /\ \E e \in FailureKinds : stats' = [stats EXCEPT !.error = error_text(e)]
    /\ heap' = [o \in DOMAIN heap \cup {deepcopy_target} |->
                    IF o = deepcopy_target
                    THEN apply_kept_ids(heap["caller"],
                                        keep_ids_of(items, decisions), decisions)
                    ELSE heap[o]]
    /\ ret' = filtered_refs(deepcopy_target, heap["caller"])
    /\ pc' = "done"
    /\ UNCHANGED << cfg, args, items, eval_items, start, decisions, collected >>
    /\ UNCHANGED step_vars
    /\ UNCHANGED last_answer

\* One _judge_batch call that raises: filter_before_send catches the
\* exception, records it and returns the arguments.
JudgeBatchRaises ==
    /\ pc = "judging"
    /\ start < Len(eval_items)
    /\ LET chunk == chunk_at(eval_items, start)
       IN  /\ fetch_calls' = fetch_calls + Len(fetch_urls(chunk))
           /\ judge_calls' = judge_calls + 1
           /\ sent_chunks' = Append(sent_chunks, IdList(chunk))
           /\ failed_batch' = judge_calls + 1
    /\ \E e \in FailureKinds : stats' = [stats EXCEPT !.error = error_text(e)]
    /\ ret' = echo_refs
    /\ pc' = "done"
    /\ UNCHANGED << cfg, args, heap, items, eval_items, start, decisions,
                    collected >>
    /\ UNCHANGED step_vars
    /\ UNCHANGED last_answer

\* Every batch has returned: the kept ids are computed and _apply_kept_ids
\* rewrites a copy of the arguments.
ApplyDecisions ==
    /\ pc = "judging"
    /\ start >= Len(eval_items)
    /\ LET keep_ids == keep_ids_of(items, decisions)
           target == deepcopy_target
           total == stats.total_items
           dropped == total - Cardinality(keep_ids)
       IN  /\ heap' = [o \in DOMAIN heap \cup {target} |->
                        IF o = target
                        THEN apply_kept_ids(heap["caller"], keep_ids, decisions)
                        ELSE heap[o]]
           /\ stats' = [stats EXCEPT
                            !.kept_items = Cardinality(keep_ids),
                            !.dropped_items = IF dropped > 0 THEN dropped ELSE 0]
           /\ ret' = filtered_refs(target, heap["caller"])
    /\ pc' = "done"
    /\ UNCHANGED << cfg, args, items, eval_items, start, decisions, collected,
                    judge_calls, fetch_calls, failed_batch, sent_chunks >>
    /\ UNCHANGED step_vars
    /\ UNCHANGED last_answer

Next ==
    \/ ReturnDisabled
    \/ ReturnNoKey
    \/ ReturnNoCandidates
    \/ BeginJudging
    \/ JudgeBatchReturns
    \/ JudgeBatchRaises
    \/ ApplyDecisions

Spec == Init /\ [][Next]_vars

\* ------------------------------------- _judge_batch, one step after another

DefaultConcurrency == 6
MaxWorkers == 16
DefaultMaxContentChars == 4000
ErrorStatus == 400
MinContentLen == 200

\* int(get("CONTENT_FETCH_CONCURRENCY", 6) or 6), int(get("MAX_CONTENT_CHARS", 4000) or 4000)
content_fetch_concurrency == int_or(cfg.content_fetch_concurrency, DefaultConcurrency)
max_content_chars == DefaultMaxContentChars

\* The configured value taken as it is when positive: no min(max(., 1), 16).
workers_unclamped ==
    IF content_fetch_concurrency > 0 THEN content_fetch_concurrency
    ELSE DefaultConcurrency

\* workers = c if c and c > 0 else 6; workers = min(max(workers, 1), 16)
workers ==
    LET w == IF content_fetch_concurrency > 0 THEN content_fetch_concurrency
             ELSE DefaultConcurrency
        lo == IF w > 1 THEN w ELSE 1
    IN  IF lo < MaxWorkers THEN lo ELSE MaxWorkers

\* The fetches that run at once: the pool's workers, or one after the other on
\* the path without a pool.
parallel_fetches == IF workers > 1 THEN workers ELSE 1

\* A text is known by the link it was read from and its length; NoText is
\* Python's None and EmptyText is "".
NoText == [some |-> FALSE, of |-> "", len |-> 0]
Text(u, n) == [some |-> TRUE, of |-> u, len |-> n]
EmptyText == Text("", 0)

\* `if txt:`
truthy_text(t) == t.some /\ t.len > 0

\* What requests.get does for one link: it raises (no connection, a timeout),
\* or answers with a status and a body whose cleaned text has length len.
FetchResponses ==
    { [raised |-> TRUE, status |-> 0, len |-> 0] }
        \cup [raised : {FALSE}, status : {200, 404}, len : {0, 199, 200, 5000}]

\* fetch_url_text: None for no link, an exception, a status >= 400, no text or
\* a text under 200 characters; else the text cut to max_chars.
fetch_url_text(url, resp, max_chars) ==
    IF url = "" THEN NoText
    ELSE IF resp.raised THEN NoText
    ELSE IF resp.status >= ErrorStatus THEN NoText
    ELSE IF resp.len = 0 THEN NoText
    ELSE IF resp.len < MinContentLen THEN NoText
    ELSE Text(url, IF max_chars > 0 /\ resp.len > max_chars THEN max_chars ELSE resp.len)

\* futs: one fetch submitted for every link of the chunk.
submitted(chunk) ==
    LET urls == fetch_urls(chunk)
    IN  [i \in 1..Len(urls) |-> [url |-> urls[i], state |-> "queued", result |-> NoText]]

\* url_to_content[u] = txt
store(m, u, txt) ==
    [x \in DOMAIN m \cup {u} |-> IF x = u THEN txt ELSE m[x]]

\* url_to_content.get(url, "") if url else ""
content_for(m, url) ==
    IF url # "" /\ url \in DOMAIN m THEN m[url] ELSE EmptyText

\* enriched_payload (title, source and group, which are copied, are left out).
enriched_payload(chunk, m) ==
    [i \in 1..Len(chunk) |->
        [id |-> chunk[i].id, url |-> chunk[i].url,
         content |-> content_for(m, chunk[i].url)]]

\* The entries, configurations and arguments of the step-by-step view: entries
\* with two different links and one without, in one keyword group; the gate
\* enabled with a key and USE_CONTENT set.
StepEntries == { Entry(<<"A">>, "u"), Entry(<<"C">>, "v"), Entry(<<"B", " ">>, "") }
ConcurrencyValues == {-1, 0, 1, 2, 17}
StepConfigs ==
    [enabled : {"true"}, api_key : { <<"k">> }, max_items : {0},
     batch_size : BatchSizeValues, use_content : {TRUE},
     content_fetch_concurrency : ConcurrencyValues]
StepArguments ==
    UNION { { [report_data |-> ReportData(StatGroups("hot_stats", << tl >>), << >>),
               rss_items |-> None, rss_new_items |-> None] :
                tl \in [1..n -> StepEntries] } : n \in 1..MaxEntries }

InitSteps ==
    /\ cfg \in StepConfigs
    /\ args \in StepArguments
    /\ heap = [o \in {"caller"} |-> args]
    /\ pc = "start"
    /\ items = << >>
    /\ eval_items = << >>
    /\ start = 0
    /\ decisions = << >>
    /\ stats = NewStats
    /\ ret = [report_data |-> "None", rss_items |-> "None", rss_new_items |-> "None"]
    /\ collected = FALSE
    /\ judge_calls = 0
    /\ fetch_calls = 0
    /\ failed_batch = 0
    /\ sent_chunks = << >>
    /\ tasks = << >>
    /\ url_to_content = << >>
    /\ payload = << >>
    /\ outstanding = {}
    /\ last_answer = << >>

\* _judge_batch is entered for the next chunk: url_to_content is empty and one
\* fetch is submitted for every link of the chunk.
BatchBegins ==
    /\ pc = "judging"
    /\ start < Len(eval_items)
    /\ tasks' = submitted(chunk_at(eval_items, start))
    /\ url_to_content' = << >>
    /\ pc' = "fetching"
    /\ UNCHANGED << cfg, args, heap, items, eval_items, start, decisions, stats,
                    ret, collected, judge_calls, fetch_calls, failed_batch,
                    sent_chunks, payload, outstanding >>
    /\ UNCHANGED last_answer

Queued == { i \in 1..Len(tasks) : tasks[i].state = "queued" }
Running == { i \in 1..Len(tasks) : tasks[i].state = "running" }

\* The oldest fetch not begun begins, when a worker is free.
FetchStarts ==
    /\ pc = "fetching"
    /\ Queued # {}
    /\ Cardinality(Running) < parallel_fetches
    /\ LET i == CHOOSE q \in Queued : \A r \in Queued : q <= r
       IN  tasks' = [tasks EXCEPT ![i].state = "running"]
    /\ fetch_calls' = fetch_calls + 1
    /\ UNCHANGED << cfg, args, heap, pc, items, eval_items, start, decisions,
                    stats, ret, collected, judge_calls, failed_batch,
                    sent_chunks, url_to_content, payload, outstanding >>
    /\ UNCHANGED last_answer

\* A fetch that found nothing ends the call with the caller's input.
FetchCompletesFatal ==
    /\ pc = "fetching"
    /\ \E i \in Running : \E resp \in FetchResponses :
        LET txt == fetch_url_text(tasks[i].url, resp, max_content_chars)
        IN  /\ tasks' = [tasks EXCEPT ![i].state = "done", ![i].result = txt]
            /\ IF truthy_text(txt)
               THEN /\ url_to_content' = store(url_to_content, tasks[i].url, txt)
                    /\ UNCHANGED << pc, stats, ret >>
               ELSE /\ pc' = "done"
                    /\ stats' = [stats EXCEPT !.error = "RuntimeError: fetch"]
                    /\ ret' = echo_refs
                    /\ UNCHANGED url_to_content
    /\ UNCHANGED << cfg, args, heap, items, eval_items, start, decisions,
                    collected, judge_calls, fetch_calls, failed_batch,
                    sent_chunks, payload, outstanding >>
    /\ UNCHANGED last_answer

\* A running fetch ends, in any order among those running: its text is stored
\* under its link when there is one (`if txt: url_to_content[u] = txt`).
FetchCompletes ==
    /\ pc = "fetching"
    /\ \E i \in Running : \E resp \in FetchResponses :
        LET txt == fetch_url_text(tasks[i].url, resp, max_content_chars)
        IN  /\ tasks' = [tasks EXCEPT ![i].state = "done", ![i].result = txt]
            /\ url_to_content' =
                    IF truthy_text(txt) THEN store(url_to_content, tasks[i].url, txt)
                    ELSE url_to_content
    /\ UNCHANGED << cfg, args, heap, pc, items, eval_items, start, decisions,
                    stats, ret, collected, judge_calls, fetch_calls, failed_batch,
                    sent_chunks, payload, outstanding >>
    /\ UNCHANGED last_answer

AllFetched == \A i \in 1..Len(tasks) : tasks[i].state = "done"

\* The call sent without waiting for its answer: the loop goes on to the next
\* chunk.
CallIssuedAhead ==
    /\ pc = "fetching"
    /\ AllFetched
    /\ LET chunk == chunk_at(eval_items, start)
       IN  /\ payload' = enriched_payload(chunk, url_to_content)
           /\ sent_chunks' = Append(sent_chunks, IdList(chunk))
    /\ judge_calls' = judge_calls + 1
    /\ outstanding' = outstanding \cup {judge_calls + 1}
    /\ start' = start + effective_batch_size(eval_items)
    /\ pc' = "judging"
    /\ UNCHANGED << cfg, args, heap, items, eval_items, decisions, stats,
                    ret, collected, fetch_calls, failed_batch, tasks,
                    url_to_content >>
    /\ UNCHANGED last_answer

\* Every fetch has ended: the payload is built and client.chat is called.
CallIssued ==
    /\ pc = "fetching"
    /\ AllFetched
    /\ LET chunk == chunk_at(eval_items, start)
       IN  /\ payload' = enriched_payload(chunk, url_to_content)
           /\ sent_chunks' = Append(sent_chunks, IdList(chunk))
    /\ judge_calls' = judge_calls + 1
    /\ outstanding' = outstanding \cup {judge_calls + 1}
    /\ pc' = "calling"
    /\ UNCHANGED << cfg, args, heap, items, eval_items, start, decisions, stats,
                    ret, collected, fetch_calls, failed_batch, tasks,
                    url_to_content >>
    /\ UNCHANGED last_answer

\* The rows are stored and the loop takes the same chunk again.
CallReturnsSameChunk ==
    /\ pc = "calling"
    /\ \E named \in NamedIds(chunk_at(eval_items, start), items) :
         \E rows \in [named -> RowKinds] :
             decisions' = update_decisions(decisions, rows)
    /\ outstanding' = outstanding \ {judge_calls}
    /\ pc' = "judging"
    /\ UNCHANGED << cfg, args, heap, items, eval_items, start, stats, ret, collected,
                    judge_calls, fetch_calls, failed_batch, sent_chunks, tasks,
                    url_to_content, payload, last_answer >>

\* client.chat returns an array: its rows are stored and merged, and the loop
\* of _judge_in_batches moves to the next chunk.
CallReturns ==
    /\ pc = "calling"
    /\ \E named \in NamedIds(chunk_at(eval_items, start), items) :
         \E rows \in [named -> RowKinds] :
             /\ decisions' = update_decisions(decisions, rows)
    /\ outstanding' = outstanding \ {judge_calls}
    /\ start' = start + effective_batch_size(eval_items)
    /\ pc' = "judging"
    /\ UNCHANGED << cfg, args, heap, items, eval_items, stats, ret, collected,
                    judge_calls, fetch_calls, failed_batch, sent_chunks, tasks,
                    url_to_content, payload >>
    /\ UNCHANGED last_answer

\* client.chat raises or its answer is no JSON array: filter_before_send
\* catches the exception and returns the caller's objects.
CallRaises ==
    /\ pc = "calling"
    /\ failed_batch' = judge_calls
    /\ outstanding' = outstanding \ {judge_calls}
    /\ \E e \in FailureKinds : stats' = [stats EXCEPT !.error = error_text(e)]
    /\ ret' = echo_refs
    /\ pc' = "done"
    /\ UNCHANGED << cfg, args, heap, items, eval_items, start, decisions,
                    collected, judge_calls, fetch_calls, sent_chunks, tasks,
                    url_to_content, payload >>
    /\ UNCHANGED last_answer

NextSteps ==
    \/ BeginJudging
    \/ BatchBegins
    \/ FetchStarts
    \/ FetchCompletes
    \/ CallIssued
    \/ CallReturns
    \/ CallRaises
    \/ ApplyDecisions

SpecSteps == InitSteps /\ [][NextSteps]_vars

\* The same steps, none of them put off for ever: a fetch submitted to the
\* pool is run and ends (by its text, its error or its timeout), client.chat
\* returns or raises, and the thread of filter_before_send runs on.
FairSteps == SpecSteps /\ WF_vars(NextSteps)

\* --------------------------------------------- answers with a long brief

\* The briefs the service may write: an edge of at most one character, a run
\* of letters that ends near the 80th place, at most two characters that may be
\* blanks or line ends, a tail of letters, an edge.
Letters(n) == [i \in 1..n |-> "x"]
EdgeTexts == { << >>, << " " >>, << "\n" >>, << "x" >> }
MidTexts ==
    { << >> } \cup { << a >> : a \in { " ", "\n", "\r", "x" } }
        \cup { << a, b >> : a, b \in { " ", "\n", "\r", "x" } }
LongBriefs ==
    { e1 \o Letters(k) \o mid \o Letters(m) \o e2 :
        e1 \in EdgeTexts, k \in {0} \cup (MaxBriefLen - 4)..(MaxBriefLen - 1),
        mid \in MidTexts, m \in {0, 1, 14}, e2 \in EdgeTexts }

\* One keyword group with one titled entry, the gate enabled with a key.
BriefConfigs ==
    [enabled : {"true"}, api_key : { <<"k">> }, max_items : {0},
     batch_size : BatchSizeValues, use_content : {FALSE},
     content_fetch_concurrency : {0}]
BriefArguments ==
    { [report_data |-> ReportData(StatGroups("hot_stats", << << Entry(<<"A">>, "u") >> >>), << >>),
       rss_items |-> None, rss_new_items |-> None] }

InitBrief ==
    /\ cfg \in BriefConfigs
    /\ args \in BriefArguments
    /\ heap = [o \in {"caller"} |-> args]
    /\ pc = "start"
    /\ items = << >>
    /\ eval_items = << >>
    /\ start = 0
    /\ decisions = << >>
    /\ stats = NewStats
    /\ ret = [report_data |-> "None", rss_items |-> "None", rss_new_items |-> "None"]
    /\ collected = FALSE
    /\ judge_calls = 0
    /\ fetch_calls = 0
    /\ failed_batch = 0
    /\ sent_chunks = << >>
    /\ tasks = << >>
    /\ url_to_content = << >>
    /\ payload = << >>
    /\ outstanding = {}
    /\ last_answer = << >>

\* The judgment call of a chunk returns one row, for an item of the chunk, with
\* one of the long briefs.
JudgeBatchReturnsBrief ==
    /\ pc = "judging"
    /\ start < Len(eval_items)
    /\ LET chunk == chunk_at(eval_items, start)
       IN  /\ fetch_calls' = fetch_calls + Len(fetch_urls(chunk))
           /\ judge_calls' = judge_calls + 1
           /\ sent_chunks' = Append(sent_chunks, IdList(chunk))
           /\ \E id \in Ids(chunk) : \E raw \in LongBriefs :
                LET rows == [x \in {id} |->
                                [keep |-> TRUE, score |-> DefaultMinScore, brief |-> raw]]
                IN  /\ decisions' = update_decisions(decisions, rows)
                    /\ last_answer' = rows
           /\ start' = start + effective_batch_size(eval_items)
    /\ UNCHANGED << cfg, args, heap, pc, items, eval_items, stats, ret, collected,
                    failed_batch >>
    /\ UNCHANGED step_vars

NextBrief ==
    \/ BeginJudging
    \/ JudgeBatchReturnsBrief
    \/ JudgeBatchRaises
    \/ ApplyDecisions

SpecBrief == InitBrief /\ [][NextBrief]_vars

\* ------------------------------------------ the text of an answer, read

\* How many elements the array of an answer has at most.
MaxRows == 2

\* A JSON value where the answer has a keep or a score: the key is missing, or
\* its value is null, a boolean, an integer, a string that is no numeral
\* ("high") or a string that is one ("70").
Missing == [kind |-> "missing", b |-> FALSE, n |-> 0]
Null == [kind |-> "null", b |-> FALSE, n |-> 0]
JBool(b) == [kind |-> "bool", b |-> b, n |-> 0]
JInt(n) == [kind |-> "int", b |-> FALSE, n |-> n]
JWord == [kind |-> "word", b |-> FALSE, n |-> 0]
JNumeral(n) == [kind |-> "numeral", b |-> FALSE, n |-> n]

\* bool(row.get("keep", False))
py_bool(v) ==
    CASE v.kind = "missing" -> FALSE
      [] v.kind = "null" -> FALSE
      [] v.kind = "bool" -> v.b
      [] v.kind = "int" -> v.n # 0
      [] v.kind = "word" -> TRUE
      [] v.kind = "numeral" -> TRUE

\* int(row.get("score", 0) or 0): int() of a string that is no numeral raises
\* ValueError.
py_int_or_zero(v) ==
    CASE v.kind = "missing" -> [raised |-> FALSE, n |-> 0]
      [] v.kind = "null" -> [raised |-> FALSE, n |-> 0]
      [] v.kind = "bool" -> [raised |-> FALSE, n |-> IF v.b THEN 1 ELSE 0]
      [] v.kind = "int" -> [raised |-> FALSE, n |-> v.n]
      [] v.kind = "word" -> [raised |-> TRUE, n |-> 0]
      [] v.kind = "numeral" -> [raised |-> FALSE, n |-> v.n]

\* The elements of the array of an answer: an object (a row: its id, << >> when
\* missing or blank, its keep, its score, its brief) or a number.
NoId == << >>
NoRow == [id |-> NoId, keep |-> Missing, score |-> Missing, brief |-> << >>]
Row(id, keep, score) == [id |-> id, keep |-> keep, score |-> score, brief |-> << "X" >>]
DictElem(r) == [kind |-> "dict", row |-> r]
NumElem == [kind |-> "num", row |-> NoRow]

\* A text is a sequence of tokens: brackets, braces, a code fence, its language
\* line, prose, a key with its colon, a number, the members of a row.
Tok(t) == [t |-> t, row |-> NoRow]
RowTok(r) == [t |-> "row", row |-> r]

\* json.dumps of an element and of an array of elements (commas left out).
element_text(el) ==
    IF el.kind = "dict" THEN << Tok("{"), RowTok(el.row), Tok("}") >> ELSE << Tok("1") >>
RECURSIVE elements_text(_)
elements_text(els) ==
    IF els = << >> THEN << >> ELSE element_text(Head(els)) \o elements_text(Tail(els))
array_text(els) == << Tok("[") >> \o elements_text(els) \o << Tok("]") >>

\* The positions of token t in s.
Positions(s, t) == { i \in 1..Len(s) : s[i].t = t }
First(S) == CHOOSE i \in S : \A j \in S : i <= j
Last(S) == CHOOSE i \in S : \A j \in S : i >= j

\* s.strip of the backquotes at both ends
RECURSIVE strip_fence_left(_)
strip_fence_left(s) ==
    IF s # << >> /\ Head(s).t = "fence" THEN strip_fence_left(Tail(s)) ELSE s
RECURSIVE strip_fence_right(_)
strip_fence_right(s) ==
    IF s # << >> /\ s[Len(s)].t = "fence"
    THEN strip_fence_right(SubSeq(s, 1, Len(s) - 1))
    ELSE s

\* s[l : r + 1] for l = s.find(open), r = s.rfind(close), when r > l.
span(s, open, close) ==
    LET ls == Positions(s, open)
        rs == Positions(s, close)
    IN  IF ls # {} /\ rs # {} /\ Last(rs) > First(ls)
        THEN [found |-> TRUE, text |-> SubSeq(s, First(ls), Last(rs))]
        ELSE [found |-> FALSE, text |-> << >>]

\* _safe_json_extract: None for an empty text; a leading code fence and its
\* language line are taken off; the span from the first [ to the last ], else
\* from the first { to the last }, else None.
safe_json_extract(text) ==
    IF text = << >> THEN [found |-> FALSE, text |-> << >>]
    ELSE LET s == IF Head(text).t = "fence"
                  THEN LET u == strip_fence_right(strip_fence_left(text))
                       IN  IF u # << >> /\ Head(u).t = "json" THEN Tail(u) ELSE u
                  ELSE text
         IN  IF span(s, "[", "]").found THEN span(s, "[", "]")
             ELSE span(s, "{", "}")

\* json.loads of the elements between the brackets of an array.
RECURSIVE loads_elements(_)
loads_elements(ts) ==
    IF ts = << >> THEN [ok |-> TRUE, elems |-> << >>]
    ELSE IF Head(ts).t = "1"
    THEN LET rest == loads_elements(Tail(ts))
         IN  [ok |-> rest.ok, elems |-> << NumElem >> \o rest.elems]
    ELSE IF Len(ts) >= 3 /\ ts[1].t = "{" /\ ts[2].t = "row" /\ ts[3].t = "}"
    THEN LET rest == loads_elements(SubSeq(ts, 4, Len(ts)))
         IN  [ok |-> rest.ok, elems |-> << DictElem(ts[2].row) >> \o rest.elems]
    ELSE [ok |-> FALSE, elems |-> << >>]

\* json.loads: a list, a dict, or JSONDecodeError (ok false).
json_loads(ts) ==
    LET inner == SubSeq(ts, 2, Len(ts) - 1)
        bad == [ok |-> FALSE, kind |-> "", elems |-> << >>]
    IN  IF Len(ts) < 2 THEN bad
        ELSE IF ts[1].t = "[" /\ ts[Len(ts)].t = "]"
        THEN LET els == loads_elements(inner)
             IN  IF els.ok THEN [ok |-> TRUE, kind |-> "list", elems |-> els.elems] ELSE bad
        ELSE IF ts[1].t = "{" /\ ts[Len(ts)].t = "}"
        THEN IF Len(inner) = 1 /\ inner[1].t = "row"
             THEN [ok |-> TRUE, kind |-> "dict", elems |-> << >>]
             ELSE IF Len(inner) >= 2 /\ inner[1].t = "key"
                     /\ \/ (Len(inner) = 2 /\ inner[2].t = "1")
                        \/ /\ inner[2].t = "[" /\ inner[Len(inner)].t = "]"
                           /\ loads_elements(SubSeq(inner, 3, Len(inner) - 1)).ok
             THEN [ok |-> TRUE, kind |-> "dict", elems |-> << >>]
             ELSE bad
        ELSE bad

\* decisions[rid] = {...}
put_decision(decs, id, d) ==
    [x \in DOMAIN decs \cup {id} |-> IF x = id THEN d ELSE decs[x]]

\* The loop over the rows with a non-object element an error.
RECURSIVE read_rows_objects_only(_, _, _)
read_rows_objects_only(elems, i, decs) ==
    IF i > Len(elems) THEN [raised |-> FALSE, decs |-> decs]
    ELSE LET row == elems[i].row
             score == py_int_or_zero(row.score)
         IN  IF elems[i].kind # "dict" THEN [raised |-> TRUE, decs |-> decs]
             ELSE IF row.id = NoId THEN read_rows_objects_only(elems, i + 1, decs)
             ELSE IF score.raised THEN [raised |-> TRUE, decs |-> decs]
             ELSE read_rows_objects_only(elems, i + 1,
                    put_decision(decs, row.id,
                        [keep |-> py_bool(row.keep), score |-> score.n,
                         brief |-> normalize_brief(row.brief)]))

\* for row in data: an element that is no dict and a row with a blank id are
\* skipped; int() of the score may raise; the decision is stored under the id.
RECURSIVE read_rows(_, _, _)
read_rows(elems, i, decs) ==
    IF i > Len(elems) THEN [raised |-> FALSE, decs |-> decs]
    ELSE LET row == elems[i].row
             score == py_int_or_zero(row.score)
         IN  IF elems[i].kind # "dict" THEN read_rows(elems, i + 1, decs)
             ELSE IF row.id = NoId THEN read_rows(elems, i + 1, decs)
             ELSE IF score.raised THEN [raised |-> TRUE, decs |-> decs]
             ELSE read_rows(elems, i + 1,
                    put_decision(decs, row.id,
                        [keep |-> py_bool(row.keep), score |-> score.n,
                         brief |-> normalize_brief(row.brief)]))

\* _judge_batch from the answer of client.chat on: the exception raised, or
\* the decisions of the chunk.
read_answer(text) ==
    LET extracted == safe_json_extract(text)
        data == json_loads(extracted.text)
        rows == read_rows(data.elems, 1, << >>)
        fails(e) == [raised |-> TRUE, error |-> e, decs |-> << >>]
    IN  IF ~extracted.found THEN fails("ValueError: no JSON found")
        ELSE IF ~data.ok THEN fails("JSONDecodeError: invalid")
        ELSE IF data.kind # "list" THEN fails("ValueError: not an array")
        ELSE IF rows.raised THEN fails("ValueError: invalid literal for int()")
        ELSE [raised |-> FALSE, error |-> "", decs |-> rows.decs]

\* decisions.update(chunk_decisions)
merge_decisions(decs, new) ==
    [id \in DOMAIN decs \cup DOMAIN new |-> IF id \in DOMAIN new THEN new[id] ELSE decs[id]]

\* What the service may write for a chunk.  The elements: a number, and rows
\* for an id of the chunk or with no id, with every keep and score below.
KeepValues == { Missing, JBool(TRUE), JBool(FALSE), JWord }
ScoreValues == { Missing, Null, JInt(DefaultMinScore), JWord, JNumeral(DefaultMinScore) }
Elements(chunk) ==
    { NumElem, DictElem(Row(NoId, JBool(TRUE), JInt(DefaultMinScore))) }
        \cup { DictElem(Row(id, k, sc)) : id \in Ids(chunk), k \in KeepValues, sc \in ScoreValues }
ElementLists(chunk) ==
    UNION { [1..n -> Elements(chunk)] : n \in 0..MaxRows }

\* The answers: each has the text the program reads, and says what the service
\* wrote (its shape and the elements of its array).
Answer(shape, els, text) == [shape |-> shape, elems |-> els, text |-> text]
Answers(chunk) ==
    { Answer("empty", << >>, << >>),
      Answer("prose", << >>, << Tok("p") >>),
      Answer("object of a number", << >>, << Tok("{"), Tok("key"), Tok("1"), Tok("}") >>) }
    \cup { Answer("array", els, array_text(els)) : els \in ElementLists(chunk) }
    \cup { Answer("fenced array", els,
                  << Tok("fence"), Tok("json") >> \o array_text(els) \o << Tok("fence") >>) :
            els \in ElementLists(chunk) }
    \cup { Answer("array in prose", els, << Tok("p") >> \o array_text(els) \o << Tok("p") >>) :
            els \in ElementLists(chunk) }
    \cup { Answer("object of an array", els,
                  << Tok("{"), Tok("key") >> \o array_text(els) \o << Tok("}") >>) :
            els \in ElementLists(chunk) }
    \cup { Answer("object", << >>, element_text(DictElem(Row(id, JBool(TRUE), JInt(DefaultMinScore))))) :
            id \in Ids(chunk) }
    \cup { Answer("array cut short", << >>,
                  << Tok("[") >> \o element_text(DictElem(Row(id, JBool(TRUE), JInt(DefaultMinScore))))) :
            id \in Ids(chunk) }
    \cup { Answer("array after bracketed prose", els,
                  << Tok("["), Tok("p"), Tok("]") >> \o array_text(els)) :
            els \in { << >> } }

\* One keyword group with one titled entry, the gate enabled with a key.
AnswerConfigs == BriefConfigs
AnswerArguments == BriefArguments

InitAnswers ==
    /\ cfg \in AnswerConfigs
    /\ args \in AnswerArguments
    /\ heap = [o \in {"caller"} |-> args]
    /\ pc = "start"
    /\ items = << >>
    /\ eval_items = << >>
    /\ start = 0
    /\ decisions = << >>
    /\ stats = NewStats
    /\ ret = [report_data |-> "None", rss_items |-> "None", rss_new_items |-> "None"]
    /\ collected = FALSE
    /\ judge_calls = 0
    /\ fetch_calls = 0
    /\ failed_batch = 0
    /\ sent_chunks = << >>
    /\ tasks = << >>
    /\ url_to_content = << >>
    /\ payload = << >>
    /\ outstanding = {}
    /\ last_answer = << >>

\* One pass of the loop of _judge_in_batches, the text of the answer read:
\* _judge_batch raises and filter_before_send returns the caller's objects, or
\* the decisions of the chunk are merged.
JudgeBatchAnswered ==
    /\ pc = "judging"
    /\ start < Len(eval_items)
    /\ LET chunk == chunk_at(eval_items, start)
       IN  /\ fetch_calls' = fetch_calls + Len(fetch_urls(chunk))
           /\ judge_calls' = judge_calls + 1
           /\ sent_chunks' = Append(sent_chunks, IdList(chunk))
           /\ \E answer \in Answers(chunk) :
                LET out == read_answer(answer.text)
                IN  /\ last_answer' = answer
                    /\ IF out.raised
                       THEN /\ failed_batch' = judge_calls + 1
                            /\ stats' = [stats EXCEPT !.error = error_text(out.error)]
                            /\ ret' = echo_refs
                            /\ pc' = "done"
                            /\ UNCHANGED << decisions, start >>
                       ELSE /\ decisions' = merge_decisions(decisions, out.decs)
                            /\ start' = start + effective_batch_size(eval_items)
                            /\ UNCHANGED << failed_batch, stats, ret, pc >>
    /\ UNCHANGED << cfg, args, heap, items, eval_items, collected >>
    /\ UNCHANGED step_vars

NextAnswers ==
    \/ BeginJudging
    \/ JudgeBatchAnswered
    \/ ApplyDecisions

SpecAnswers == InitAnswers /\ [][NextAnswers]_vars

\* ------------------------------------------- inputs wider than MAX_ITEMS

\* How many candidates more than the default of MAX_ITEMS the widest input has.
WideExtra == 1

\* One keyword group of n titled entries, n from just under to just over the
\* default of MAX_ITEMS; MAX_ITEMS 0 or positive, BATCH_SIZE unset or 16.
WideConfigs ==
    [enabled : {"true"}, api_key : { <<"k">> }, max_items : {0, 2},
     batch_size : {0, 16}, use_content : {FALSE},
     content_fetch_concurrency : {0}]
WideArguments ==
    { [report_data |->
            ReportData(StatGroups("hot_stats", << [j \in 1..n |-> Entry(<<"A">>, "u")] >>), << >>),
       rss_items |-> None, rss_new_items |-> None] :
        n \in (DefaultMaxItems - 1)..(DefaultMaxItems + WideExtra) }

InitWide ==
    /\ cfg \in WideConfigs
    /\ args \in WideArguments
    /\ heap = [o \in {"caller"} |-> args]
    /\ pc = "start"
    /\ items = << >>
    /\ eval_items = << >>
    /\ start = 0
    /\ decisions = << >>
    /\ stats = NewStats
    /\ ret = [report_data |-> "None", rss_items |-> "None", rss_new_items |-> "None"]
    /\ collected = FALSE
    /\ judge_calls = 0
    /\ fetch_calls = 0
    /\ failed_batch = 0
    /\ sent_chunks = << >>
    /\ tasks = << >>
    /\ url_to_content = << >>
    /\ payload = << >>
    /\ outstanding = {}
    /\ last_answer = << >>

\* The judgment call of a chunk returns: the answer names no item, or every
\* item of the chunk with the same verdict.
JudgeBatchReturnsUniform ==
    /\ pc = "judging"
    /\ start < Len(eval_items)
    /\ LET chunk == chunk_at(eval_items, start)
       IN  /\ fetch_calls' = fetch_calls + Len(fetch_urls(chunk))
           /\ judge_calls' = judge_calls + 1
           /\ sent_chunks' = Append(sent_chunks, IdList(chunk))
           /\ \E named \in { {}, Ids(chunk) } : \E kind \in RowKinds :
                LET rows == [id \in named |-> kind]
                IN  /\ decisions' = update_decisions(decisions, rows)
           /\ start' = start + effective_batch_size(eval_items)
    /\ UNCHANGED << cfg, args, heap, pc, items, eval_items, stats, ret, collected,
                    failed_batch >>
    /\ UNCHANGED step_vars
    /\ UNCHANGED last_answer

NextWide ==
    \/ BeginJudging
    \/ JudgeBatchReturnsUniform
    \/ JudgeBatchRaises
    \/ ApplyDecisions

SpecWide == InitWide /\ [][NextWide]_vars

\* ------------------------------------------------------------ observations

\* The object a returned reference stands for.
Returned(f) == IF ret[f] = "None" THEN None ELSE heap[ret[f]][f]

\* What the caller receives (meaningful once pc = "done").
Output ==
    [report_data |-> heap[ret.report_data].report_data,
     rss_items |-> Returned("rss_items"),
     rss_new_items |-> Returned("rss_new_items")]

\* The keyword groups (those written with a count) and the source groups of
\* three collections o.
StatGroupsOf(o) ==
    { o.report_data.stats[i] : i \in 1..Len(o.report_data.stats) }
        \cup { o.rss_items.groups[i] : i \in 1..Len(o.rss_items.groups) }
        \cup { o.rss_new_items.groups[i] : i \in 1..Len(o.rss_new_items.groups) }
SourceGroupsOf(o) ==
    { o.report_data.new_titles[i] : i \in 1..Len(o.report_data.new_titles) }
GroupsOf(o) == StatGroupsOf(o) \cup SourceGroupsOf(o)

EntriesOf(o) == UNION { { g.titles[j] : j \in 1..Len(g.titles) } : g \in GroupsOf(o) }

\* The entry the caller had at the place an id names is in the output.
Present(id) == \E e \in EntriesOf(Output) : e.at = id

Blank(text) == \A i \in 1..Len(text) : text[i] \in Whitespace

\* The call returned the caller's own objects, with the content they had.
EchoReturned ==
    /\ \A f \in DOMAIN ret : ret[f] = "caller"
    /\ Output = args

\* The call returned the rewritten copy.
FilteredReturned == ret.report_data = "copy"

\* A run that judged every batch and filtered.
Succeeded == pc = "done" /\ failed_batch = 0 /\ judge_calls > 0

\* ------------------------------------------------------------------ claims

\* C1 (fail-open): when the judgment call of some batch raised, the call
\* returns collections equal to the input and stats.error is not empty.
C1_FailOpen ==
    (pc = "done" /\ failed_batch > 0) =>
        (Output = args /\ stats.error # "")

C1_Witness ==
    /\ pc = "done"
    /\ failed_batch = 1
    /\ Len(items) = 2
    /\ stats.error = "ValueError: no JSON found"

\* C2 (no partial filtering): when batches 1..j-1 returned decisions and batch
\* j raised, every entry those batches decided on is still in the output, and
\* none of them carries a brief.
C2_NoPartialFiltering ==
    (pc = "done" /\ failed_batch >= 2) =>
        \A id \in DOMAIN decisions :
            \E e \in EntriesOf(Output) : e.at = id /\ e.brief = NoBrief

C2_Witness ==
    /\ pc = "done"
    /\ failed_batch = 2
    /\ \E id \in DOMAIN decisions :
        /\ ~decisions[id].keep
        /\ Present(id)
    /\ \E id \in DOMAIN decisions : decisions[id].brief # << >>

\* C3, as claimed: every call ends either with a filtered result and an empty
\* stats.error, or with an echo of the input and a populated stats.error.
C3_TwoOutcomes ==
    pc = "done" =>
        \/ FilteredReturned /\ stats.error = ""
        \/ EchoReturned /\ stats.error # ""

\* C3, amended: every call ends with a filtered result and an empty
\* stats.error, or with an echo of the input and a populated stats.error, or
\* with an echo of the input and an empty stats.error, the last only when the
\* gate is not enabled or no entry of the input has a non-blank title.
C3_ThreeOutcomes ==
    pc = "done" =>
        \/ FilteredReturned /\ stats.error = "" /\ Succeeded
        \/ EchoReturned /\ stats.error # ""
        \/ /\ EchoReturned /\ stats.error = ""
           /\ \/ cfg.enabled # "true"
              \/ \A e \in EntriesOf(args) : Blank(e.title)

C3_Witness ==
    /\ pc = "done"
    /\ EchoReturned
    /\ stats.error = ""
    /\ cfg.enabled = "true"
    /\ ~Blank(cfg.api_key)
    /\ EntriesOf(args) # {}

\* C4 (default keep beyond the cap): with max_items = k > 0 below the number
\* of candidates, every candidate at a position past k is in the output of a
\* run that succeeded, whatever the service answered.
C4_KeptBeyondCap ==
    (Succeeded /\ cfg.max_items > 0) =>
        \A i \in 1..Len(items) :
            i > cfg.max_items => Present(items[i].id)

C6_UndecidedKept ==
    Succeeded =>
        \A i \in 1..Len(eval_items) :
            eval_items[i].id \notin DOMAIN decisions => Present(eval_items[i].id)

C6_Witness ==
    /\ Succeeded
    /\ \E i, j \in 1..Len(eval_items) :
        /\ eval_items[i].id \notin DOMAIN decisions
        /\ Present(eval_items[i].id)
        /\ eval_items[j].id \in DOMAIN decisions
        /\ ~Present(eval_items[j].id)

\* C7, as claimed: after a run that succeeded, every group of every output
\* collection has count = len(titles), and total_new_count is the number of
\* entries left in new_titles.
C7_CountsEverywhere ==
    Succeeded =>
        /\ \A g \in GroupsOf(Output) :
            "count" \in DOMAIN g /\ g.count = Len(g.titles)
        /\ Output.report_data.total_new_count =
            Cardinality({ e \in EntriesOf(Output) : e.at[1] = "hot_new" })

\* C7, amended: after a run that succeeded, every group of stats, rss_items
\* and rss_new_items has count = len(titles); a group of new_titles is given
\* no count; total_new_count is the number of entries left in new_titles.
C7_CountsOfKeywordGroups ==
    Succeeded =>
        /\ \A g \in StatGroupsOf(Output) : g.count = Len(g.titles)
        /\ \A g \in SourceGroupsOf(Output) : "count" \notin DOMAIN g
        /\ Output.report_data.total_new_count =
            Cardinality({ e \in EntriesOf(Output) : e.at[1] = "hot_new" })

C7_Witness ==
    /\ Succeeded
    /\ \E g \in StatGroupsOf(Output) : \E h \in StatGroupsOf(args) :
        /\ g.titles[1].at[1] = h.titles[1].at[1]
        /\ g.titles[1].at[2] = h.titles[1].at[2]
        /\ g.count = 1
        /\ h.count = 2
        /\ ~Blank(h.titles[1].title) /\ ~Blank(h.titles[2].title)

\* C8: on every path the caller's own report_data, rss_items and
\* rss_new_items have, after the call, the content they had before it.
C8_CallerUnchanged ==
    pc = "done" => heap["caller"] = args

C8_Witness ==
    /\ Succeeded
    /\ FilteredReturned
    /\ EntriesOf(Output) # EntriesOf(args)
    /\ \E e \in EntriesOf(Output) : e.brief # NoBrief

\* C9: with the gate enabled and no API key configured, no judgment call and
\* no content fetch is issued, and the call returns the input with a
\* populated stats.error.
C9_NoKeyNoCalls ==
    (cfg.enabled = "true" /\ Blank(cfg.api_key)) =>
        /\ judge_calls = 0
        /\ fetch_calls = 0
        /\ pc \in {"start", "done"}
        /\ pc = "done" => (EchoReturned /\ stats.error # "")

C9_Witness ==
    /\ pc = "done"
    /\ cfg.enabled = "true"
    /\ Blank(cfg.api_key)
    /\ cfg.use_content
    /\ \E e \in EntriesOf(args) : ~Blank(e.title) /\ e.url # ""

\* C10: with ENABLED absent or false, nothing is collected, fetched or judged,
\* and the call returns the input with an all-zero, error-free stats record.
C10_DisabledDoesNothing ==
    (cfg.enabled \in {"absent", "false"}) =>
        /\ ~collected
        /\ judge_calls = 0
        /\ fetch_calls = 0
        /\ pc \in {"start", "done"}
        /\ pc = "done" =>
            /\ EchoReturned
            /\ stats = [total_items |-> 0, evaluated_items |-> 0, kept_items |-> 0,
                        dropped_items |-> 0, error |-> ""]

C10_Witness ==
    /\ pc = "done"
    /\ cfg.enabled = "absent"
    /\ ~Blank(cfg.api_key)
    /\ cfg.use_content
    /\ \E e \in EntriesOf(args) : ~Blank(e.title) /\ e.url # ""

\* The ids of the candidates sent to the service so far.
SentIds == UNION { { sent_chunks[i][k] : k \in 1..Len(sent_chunks[i]) } : i \in 1..Len(sent_chunks) }

\* ------------------------------------------------------- C11: MAX_ITEMS

\* C11 (MAX_ITEMS): with MAX_ITEMS = 0 every candidate is evaluated, so that
\* evaluated_items equals total_items and a run that succeeded has sent every
\* candidate in some batch; with MAX_ITEMS = N > 0 the candidates evaluated are
\* the first N.
C11_ZeroEvaluatesAll ==
    /\ (collected /\ cfg.max_items = 0) =>
            /\ stats.evaluated_items = stats.total_items
            /\ eval_items = items
    /\ (Succeeded /\ cfg.max_items = 0) => Ids(items) \subseteq SentIds
    /\ (collected /\ cfg.max_items > 0) =>
            /\ Len(eval_items) = IF cfg.max_items < Len(items) THEN cfg.max_items ELSE Len(items)
            /\ eval_items = SubSeq(items, 1, Len(eval_items))


\* The four collections of groups of three objects o, by section.
CollectionsOf(o) ==
    [hot_stats |-> o.report_data.stats,
     hot_new |-> o.report_data.new_titles,
     rss_stats |-> o.rss_items.groups,
     rss_new |-> o.rss_new_items.groups]

\* C12 (order): in a run that succeeded, the entries of every output group
\* come from one input group and stand in the order they had there, and the
\* groups of every output collection stand in the order their input groups had.
C12_OrderPreserved ==
    Succeeded =>
        \A sec \in DOMAIN CollectionsOf(Output) :
            LET gs == CollectionsOf(Output)[sec]
            IN  /\ \A g \in 1..Len(gs) : \A i, j \in 1..Len(gs[g].titles) :
                        /\ gs[g].titles[i].at[1] = sec
                        /\ gs[g].titles[i].at[2] = gs[g].titles[j].at[2]
                        /\ i < j => gs[g].titles[i].at[3] < gs[g].titles[j].at[3]
                /\ \A g, h \in 1..Len(gs) :
                        (g < h /\ gs[g].titles # << >> /\ gs[h].titles # << >>) =>
                            gs[g].titles[1].at[2] < gs[h].titles[1].at[2]

C12_Witness ==
    /\ Succeeded
    /\ \E g \in GroupsOf(Output) :
        /\ Len(g.titles) = 2
        /\ g.titles[1].title # g.titles[2].title

\* C13 (no empty groups): in a run that succeeded no output group has an empty
\* titles list, and every collection holds exactly one group for each input
\* group that has an entry in the output: a group whose entries were all
\* dropped is not in its collection.
C13_NoEmptyGroups ==
    Succeeded =>
        /\ \A g \in GroupsOf(Output) : g.titles # << >>
        /\ \A sec \in DOMAIN CollectionsOf(Output) :
                Len(CollectionsOf(Output)[sec]) =
                    Cardinality({ e.at[2] : e \in { x \in EntriesOf(Output) : x.at[1] = sec } })

C13_Witness ==
    /\ Succeeded
    /\ Len(args.report_data.stats) = 1
    /\ Len(args.report_data.stats[1].titles) = 2
    /\ \A e \in EntriesOf(args) : e.at \in DOMAIN decisions /\ ~decisions[e.at].keep
    /\ Output.report_data.stats = << >>

\* The entry the caller had at the place an id names.
OriginalAt(id) == CHOOSE e \in EntriesOf(args) : e.at = id

\* C14 (briefs): in a run that succeeded, an output entry whose own decision
\* has a non-empty brief carries that brief and is otherwise the entry the
\* caller had; every other output entry is the caller's entry unchanged.  So a
\* brief in the output is never the brief of another entry's decision.
C14_BriefOfOwnDecision ==
    Succeeded =>
        \A e \in EntriesOf(Output) :
            IF e.at \in DOMAIN decisions /\ decisions[e.at].brief # << >>
            THEN e = [OriginalAt(e.at) EXCEPT !.brief = decisions[e.at].brief]
            ELSE e = OriginalAt(e.at)

\* The example of the claim: the first title kept with brief X, the second
\* dropped though its decision has a brief.
C14_Witness ==
    /\ Succeeded
    /\ Len(args.report_data.stats) = 1
    /\ Len(args.report_data.stats[1].titles) = 2
    /\ LET out == Output.report_data.stats
           second == << "hot_stats", 0, 1 >>
       IN  /\ Len(out) = 1
           /\ out[1].count = 1
           /\ Len(out[1].titles) = 1
           /\ out[1].titles[1].title = << "A" >>
           /\ out[1].titles[1].brief = << "X" >>
           /\ second \in DOMAIN decisions
           /\ decisions[second].brief = << "Y", " ", "Z" >>

\* ------------------------------------------------- C17..C20: the batches

RECURSIVE Flatten(_)
Flatten(ss) == IF ss = << >> THEN << >> ELSE Head(ss) \o Flatten(Tail(ss))

\* ceil(n / b) for b > 0
CeilDiv(n, b) == (n + b - 1) \div b

\* C17 (partition): a run that succeeded with batch size B > 0 over n
\* candidates to evaluate made exactly ceil(n / B) judgment calls; the chunks
\* sent are not empty, have at most B elements, share no id, and put one after
\* the other in the order sent are the candidates to evaluate in their order.
C17_BatchPartition ==
    (Succeeded /\ cfg.batch_size > 0) =>
        /\ judge_calls = CeilDiv(Len(eval_items), cfg.batch_size)
        /\ Len(sent_chunks) = judge_calls
        /\ \A i \in 1..Len(sent_chunks) :
                Len(sent_chunks[i]) \in 1..cfg.batch_size
        /\ \A i, j \in 1..Len(sent_chunks) :
                i < j => \A k \in 1..Len(sent_chunks[i]) : \A l \in 1..Len(sent_chunks[j]) :
                    sent_chunks[i][k] # sent_chunks[j][l]
        /\ Flatten(sent_chunks) = IdList(eval_items)

C17_Witness ==
    /\ Succeeded
    /\ cfg.batch_size = 1
    /\ Len(eval_items) = 2
    /\ Len(sent_chunks) = 2

\* C19 (stop at the first failure): once a batch has failed the call is over
\* and has returned the caller's input, the failed call is the last chunk
\* sent, and no step that follows makes a judgment call or fetches a link.
C19_StopAtFirstFailure ==
    /\ [](failed_batch > 0 =>
            /\ pc = "done"
            /\ EchoReturned
            /\ judge_calls = failed_batch
            /\ Len(sent_chunks) = failed_batch)
    /\ [][failed_batch > 0 =>
            /\ judge_calls' = judge_calls
            /\ fetch_calls' = fetch_calls
            /\ sent_chunks' = sent_chunks]_vars

\* The first of two chunks failed; the second, whose entry has a link to fetch,
\* was never sent and its link never fetched.
C19_Witness ==
    /\ pc = "done"
    /\ failed_batch = 1
    /\ cfg.use_content
    /\ cfg.batch_size = 1
    /\ Len(eval_items) = 2
    /\ eval_items[1].url = ""
    /\ eval_items[2].url # ""
    /\ sent_chunks = << << eval_items[1].id >> >>
    /\ fetch_calls = 0

\* C20 (decision keys): every key of the decision map is the id of a candidate
\* of a chunk already sent.
C20_KeysWereSent == DOMAIN decisions \subseteq SentIds

\* ------------------------------------------- C16, C18: the steps of a batch

\* The links of the current chunk no fetch found a text for.
FailedUrls ==
    { tasks[i].url : i \in 1..Len(tasks) } \
        { tasks[i].url : i \in { j \in 1..Len(tasks) : truthy_text(tasks[j].result) } }

\* C16 (enrichment never fatal): a step of the fetch phase leaves the call in
\* the fetch phase or issues the judgment call, it never ends the call; once
\* every fetch has ended the judgment call can be issued whatever the fetches
\* found; and the payload of the call has an entry for every item of the
\* chunk, with empty content for every link no fetch found a text for.
C16_FetchFailureNotFatal ==
    /\ [][pc = "fetching" => (pc' \in {"fetching", "calling"} /\ failed_batch' = 0)]_vars
    /\ []((pc = "fetching" /\ AllFetched) => ENABLED CallIssued)
    /\ [](pc = "calling" =>
            /\ [i \in 1..Len(payload) |-> payload[i].id] = sent_chunks[Len(sent_chunks)]
            /\ \A i \in 1..Len(payload) :
                    payload[i].url \in FailedUrls => payload[i].content = EmptyText)

\* A run that succeeded although the fetch of the last chunk's link failed.
C16_Witness ==
    /\ Succeeded
    /\ FilteredReturned
    /\ \E i \in 1..Len(tasks) : ~tasks[i].result.some
    /\ \E i \in 1..Len(payload) :
        /\ payload[i].url \in FailedUrls
        /\ payload[i].content = EmptyText

\* C18 (one call at a time): at most one judgment call is outstanding, and a
\* judgment call is issued only when none is outstanding and every chunk
\* issued before has been merged (the loop stands at the chunk being issued).
C18_SequentialCalls ==
    /\ [](Cardinality(outstanding) <= 1)
    /\ [][judge_calls' # judge_calls =>
            /\ outstanding = {}
            /\ judge_calls' = judge_calls + 1
            /\ start = judge_calls * effective_batch_size(eval_items)
            /\ failed_batch = 0]_vars

C18_Witness ==
    /\ pc = "calling"
    /\ judge_calls = 2
    /\ outstanding = {2}
    /\ DOMAIN decisions = { sent_chunks[1][1] }

\* ------------------------------------------------------ C15: brief hygiene

\* C15 (brief hygiene): every brief stored in the decision map has no line
\* feed and no carriage return, begins and ends with no whitespace, and has at
\* most 80 characters.
C15_BriefHygiene ==
    \A id \in DOMAIN decisions :
        LET b == decisions[id].brief
        IN  /\ \A i \in 1..Len(b) : b[i] \notin {"\n", "\r"}
            /\ b # << >> => (b[1] \notin Whitespace /\ b[Len(b)] \notin Whitespace)
            /\ Len(b) <= MaxBriefLen

\* The answer had a brief of 95 characters with a line end inside and a blank
\* at the 80th place; the stored brief is the 79 characters before it.
C15_Witness ==
    \E id \in DOMAIN decisions :
        /\ id \in DOMAIN last_answer
        /\ Len(last_answer[id].brief) = 95
        /\ last_answer[id].brief[80] = " "
        /\ last_answer[id].brief[81] = "\n"
        /\ decisions[id].brief = Letters(79)

\* -------------------------------------------- C21: the decision map grows

\* C21 (append-only): a decision once recorded for an id is still there, and
\* the same, after every later step.
C21_AppendOnly ==
    [][\A id \in DOMAIN decisions :
            id \in DOMAIN decisions' /\ decisions'[id] = decisions[id]]_vars

\* ------------------------------------------- C24, C25, C29: the collector

\* C24 (unique ids): no two candidates have the same id text, and the pointer
\* of every candidate (section, group index, title index) names the entry of
\* the input the candidate was made from.
C24_UniqueIds ==
    collected =>
        /\ \A i, j \in 1..Len(items) :
                i # j => id_text(items[i].id) # id_text(items[j].id)
        /\ \A i \in 1..Len(items) :
                /\ items[i].id[1] = items[i].section
                /\ \E e \in EntriesOf(args) :
                        e.at = items[i].id /\ strip(e.title) = items[i].title

\* Two candidates at the same indices of different sections.
C24_Witness ==
    /\ collected
    /\ \E i, j \in 1..Len(items) :
        /\ items[i].id[1] # items[j].id[1]
        /\ items[i].id[2] = items[j].id[2]
        /\ items[i].id[3] = items[j].id[3]

\* The places of the input entries whose title is not blank.
TitledPlaces == { e.at : e \in { x \in EntriesOf(args) : ~Blank(x.title) } }

\* C25 (blank titles): the candidates are exactly the entries whose title is
\* not blank, each under the id of its own place in the input (so a blank entry
\* before it does not move it), and total_items counts them alone.
C25_CandidateIffTitled ==
    collected =>
        /\ Ids(items) = TitledPlaces
        /\ Len(items) = Cardinality(TitledPlaces)
        /\ stats.total_items = Len(items)

\* A group whose first entry is blank and whose second is the one candidate.
C25_Witness ==
    /\ collected
    /\ stats.total_items = 1
    /\ \E g \in GroupsOf(args) :
        /\ Len(g.titles) = 2
        /\ Blank(g.titles[1].title)
        /\ g.titles[2].at[3] = 1
        /\ Ids(items) = { g.titles[2].at }

\* C29 (only kept candidates survive): after a run that filtered, every entry
\* of the output is a candidate that was not decided on or whose decision is
\* keep with a score of at least min_score, so no entry with a blank title is
\* in the output; a call that ends any other way returns every entry of the
\* input, the blank ones too.
C29_OnlyKeptCandidates ==
    /\ Succeeded =>
            \A e \in EntriesOf(Output) :
                /\ ~Blank(e.title)
                /\ e.at \in Ids(items)
                /\ e.at \in DOMAIN decisions =>
                        (decisions[e.at].keep /\ decisions[e.at].score >= DefaultMinScore)
    /\ (pc = "done" /\ ~Succeeded) =>
            (EchoReturned /\ EntriesOf(Output) = EntriesOf(args))

\* A blank entry next to a kept one: the run filtered, the kept one is in the
\* output and the blank one is not.
C29_Witness ==
    /\ Succeeded
    /\ \E g \in GroupsOf(args) :
        /\ Len(g.titles) = 2
        /\ Blank(g.titles[1].title)
        /\ ~Present(g.titles[1].at)
        /\ Present(g.titles[2].at)

\* ----------------------------------------- C26..C28, C30: the fetch pool

\* C26 (pool size): whatever CONTENT_FETCH_CONCURRENCY is, the pool has from 1
\* to 16 workers and never more fetches are running than it has workers.
C26_PoolClamped ==
    /\ workers \in 1..MaxWorkers
    /\ Cardinality(Running) <= workers

\* Configured 17: 16 workers, and the two fetches of the chunk run together.
C26_Witness ==
    /\ cfg.content_fetch_concurrency = 17
    /\ workers = MaxWorkers
    /\ Cardinality(Running) = 2

\* C27 (one fetch per link): the fetches made in one call are at most as many
\* as the different links of the candidates evaluated.
C27_EachUrlOnce ==
    fetch_calls <=
        Cardinality({ eval_items[i].url : i \in 1..Len(eval_items) } \ { "" })

\* url_to_content as the fetches of ts would fill it if they ended in the order
\* they were submitted.
RECURSIVE merge_in_order(_, _, _)
merge_in_order(ts, i, m) ==
    IF i > Len(ts) THEN m
    ELSE merge_in_order(ts, i + 1,
            IF truthy_text(ts[i].result) THEN store(m, ts[i].url, ts[i].result) ELSE m)

\* C28 (completion order): the judgment call is issued when every fetch of the
\* chunk has ended, and the content it carries for each candidate is the one
\* the texts found give in any order of ending, that of submission included.
C28_OrderIrrelevant ==
    pc = "calling" =>
        /\ AllFetched
        /\ payload = enriched_payload(chunk_at(eval_items, start),
                                      merge_in_order(tasks, 1, << >>))

\* C30 (termination): every call of filter_before_send ends, and makes no more
\* than ceil(n / B) judgment calls for n candidates evaluated in batches of B.
C30_Terminates ==
    /\ <>(pc = "done")
    /\ [](judge_calls <= CeilDiv(Len(eval_items), cfg.batch_size))

\* A call that ended after two batches, each with a link fetched.
C30_Witness ==
    /\ pc = "done"
    /\ cfg.batch_size = 1
    /\ Len(eval_items) = 2
    /\ judge_calls = 2
    /\ fetch_calls = 2
    /\ failed_batch = 0

\* ---------------------------------------- C22, C23: the answer of a batch

\* The last judgment call raised and the call returned the caller's input
\* with stats.error set.
LastBatchFailed ==
    /\ failed_batch = judge_calls
    /\ pc = "done"
    /\ EchoReturned
    /\ stats.error # ""

\* The rows of an answer that have an id and whose keep is no boolean or whose
\* score is no integer.
BadRows(answer) ==
    { i \in 1..Len(answer.elems) :
        /\ answer.elems[i].kind = "dict"
        /\ answer.elems[i].row.id # NoId
        /\ \/ answer.elems[i].row.keep.kind # "bool"
           \/ answer.elems[i].row.score.kind # "int" }

\* C22 (missing or invalid fields): a batch whose answer has a row with a
\* missing or invalid keep or score fails, and the call returns the input.
C22_BadFieldsFail ==
    (judge_calls > 0 /\ BadRows(last_answer) # {}) => LastBatchFailed

ArrayShapes == { "array", "fenced array", "array in prose" }
ObjectShapes == { "object", "object of a number", "object of an array" }

\* C23, as claimed: an answer with no JSON, with a JSON object in place of the
\* array, or with an array that has an element that is no object, fails its
\* batch, and the call returns the input with stats.error set.
C23_NotArrayOfObjectsFails ==
    (/\ judge_calls > 0
     /\ \/ last_answer.shape \in { "empty", "prose" }
        \/ last_answer.shape \in ObjectShapes
        \/ /\ last_answer.shape \in ArrayShapes
           /\ \E i \in 1..Len(last_answer.elems) : last_answer.elems[i].kind # "dict")
        => LastBatchFailed

\* The ids of the rows of an answer that have one.
RowIds(answer) ==
    { answer.elems[i].row.id :
        i \in { j \in 1..Len(answer.elems) :
                    answer.elems[j].kind = "dict" /\ answer.elems[j].row.id # NoId } }

\* C23, amended: an answer with no JSON, with a JSON object that holds no
\* array, or with text that is no JSON between its first [ and its last ],
\* fails its batch and the call returns the input with stats.error set.  An
\* array, bare, fenced, in prose or held by an object, is read: its elements
\* that are no objects and its rows without id are skipped, the other rows are
\* recorded, and the batch fails only on a score that is no number.
C23_UnreadableFails ==
    judge_calls > 0 =>
        /\ last_answer.shape \in { "empty", "prose", "object", "object of a number",
                                   "array cut short", "array after bracketed prose" }
                => LastBatchFailed
        /\ last_answer.shape \in ArrayShapes \cup { "object of an array" } =>
                /\ LastBatchFailed <=>
                        \E i \in 1..Len(last_answer.elems) :
                            /\ last_answer.elems[i].kind = "dict"
                            /\ last_answer.elems[i].row.id # NoId
                            /\ last_answer.elems[i].row.score.kind = "word"
                /\ failed_batch = 0 => DOMAIN decisions = RowIds(last_answer)

\* An array of a number and a row: the run filtered with the row's decision.
C23_Witness ==
    /\ Succeeded
    /\ last_answer.shape = "array"
    /\ Len(last_answer.elems) = 2
    /\ last_answer.elems[1].kind = "num"
    /\ last_answer.elems[2].kind = "dict"
    /\ DOMAIN decisions = { last_answer.elems[2].row.id }
    /\ DOMAIN decisions # { NoId }

====
